---------------------------- MODULE Spec2Model ----------------------------
(***************************************************************************)
(* A model of the context retrieval subsystem (KVCacheContextManager) and  *)
(* of the orchestration pipeline (LLMOrchestrator) of the repository.      *)
(*                                                                         *)
(* Python strings are TLA+ strings; Len, \o and SubSeq act on them, so     *)
(* substring tests, lowercasing, splitting and the hour patterns are       *)
(* computed character by character as the code computes them.              *)
(* A Python dict is a function from key strings to values.  An object is   *)
(* a record [oid, d]: oid is its identity (what id() returns for a live    *)
(* object), d its dict.                                                    *)
(***************************************************************************)
EXTENDS Integers, Sequences, FiniteSets, TLC

(***************************************************************************)
(* Bounds of the model.                                                    *)
(***************************************************************************)
MaxCorpus == 3
MaxTopK == 3
MaxTokens == 1
MaxReplacing == 2
MaxHour == 12

(***************************************************************************)
(* Strings.                                                                *)
(***************************************************************************)
\* Python: s[a-1:b], clipped to the string as a slice is
Slice(s, a, b) ==
    IF a > Len(s) \/ b < a THEN "" ELSE SubSeq(s, a, IF b > Len(s) THEN Len(s) ELSE b)

CharAt(s, i) == Slice(s, i, i)

\* Python: k in s
In(k, s) == \E i \in 1..(Len(s) - Len(k) + 1) : SubSeq(s, i, i + Len(k) - 1) = k

UpperChars == "ABCDEFGHIJKLMNOPQRSTUVWXYZ"
LowerChars == "abcdefghijklmnopqrstuvwxyz"
DigitChars == "0123456789"

DigitSet == {CharAt(DigitChars, i) : i \in 1..10}
UpperSet == {CharAt(UpperChars, i) : i \in 1..26}
LowerSet == {CharAt(LowerChars, i) : i \in 1..26}
LowerOf == [c \in UpperSet |-> CharAt(LowerChars, CHOOSE i \in 1..26 : CharAt(UpperChars, i) = c)]
DigitValOf == [c \in DigitSet |-> (CHOOSE i \in 1..10 : CharAt(DigitChars, i) = c) - 1]

IsDigit(c) == c \in DigitSet
IsSpace(c) == c \in {" ", "\t", "\n", "\r"}
\* a character of the regular expression class \w
IsWordChar(c) == c \in DigitSet \/ c = "_" \/ c \in UpperSet \/ c \in LowerSet

LowerChar(c) == IF c \in UpperSet THEN LowerOf[c] ELSE c

\* s[a..b] lowercased, by halves
RECURSIVE LowerRange(_, _, _)
LowerRange(s, a, b) ==
    IF a > b THEN ""
    ELSE IF a = b THEN LowerChar(CharAt(s, a))
    ELSE LET m == (a + b) \div 2
         IN  LowerRange(s, a, m) \o LowerRange(s, m + 1, b)

\* Python: s.lower()
Lower(s) == LowerRange(s, 1, Len(s))

DigitVal(c) == DigitValOf[c]

RECURSIVE ParseIntFrom(_, _, _)
ParseIntFrom(s, i, acc) ==
    IF i > Len(s) THEN acc ELSE ParseIntFrom(s, i + 1, acc * 10 + DigitVal(CharAt(s, i)))

\* Python: int(s), s a string of decimal digits
ParseInt(s) == ParseIntFrom(s, 1, 0)

RECURSIVE IntToStr(_)
\* Python: str(n), n >= 0
IntToStr(n) ==
    IF n < 10 THEN CharAt(DigitChars, n + 1)
    ELSE IntToStr(n \div 10) \o CharAt(DigitChars, (n % 10) + 1)

\* Python: f"{n:02d}", n >= 0
Format02d(n) == IF n < 10 THEN "0" \o IntToStr(n) ELSE IntToStr(n)

\* position of the first occurrence of the character c in s from position i,
\* Len(s) + 1 when there is none
FindChar(s, c, i) ==
    LET hits == {j \in i..Len(s) : CharAt(s, j) = c}
    IN  IF hits = {} THEN Len(s) + 1
        ELSE CHOOSE j \in hits : \A k \in hits : j <= k

\* Python: s.split(c)[0]
SplitFirst(s, c) == Slice(s, 1, FindChar(s, c, 1) - 1)

\* Python: s.split(c)[1], for s that contains c
SplitSecond(s, c) ==
    LET a == FindChar(s, c, 1)
        b == FindChar(s, c, a + 1)
    IN  Slice(s, a + 1, b - 1)

RECURSIVE JoinFrom(_, _, _)
JoinFrom(sep, parts, i) ==
    IF i > Len(parts) THEN ""
    ELSE IF i = Len(parts) THEN parts[i]
    ELSE parts[i] \o sep \o JoinFrom(sep, parts, i + 1)

\* Python: sep.join(parts)
Join(sep, parts) == JoinFrom(sep, parts, 1)


(***************************************************************************)
(* Dicts.  The keys the data classes of the repository use, in the order   *)
(* in which a dict built from them lists its keys; "type" is added last by *)
(* the ingest stage.  NumericKeys hold integers, every other key a string. *)
(***************************************************************************)
KeyOrder ==
    << "time", "title", "description", "duration_minutes", "subject", "body",
       "sender", "priority", "steps", "heart_rate", "calories_burned",
       "activity_type", "track_name", "artist", "genre", "mood", "note", "type" >>

NumericKeys == {"duration_minutes", "steps", "heart_rate", "calories_burned"}

\* Python: ctx.get(key, default)
Get(d, key, default) == IF key \in DOMAIN d THEN d[key] ELSE default

\* the text an f-string puts for the value of key
ValueStr(key, v) == IF key \in NumericKeys THEN IntToStr(v) ELSE v

\* Python: repr(s) of a string without backslashes and control characters
ReprStr(s) == IF In("'", s) /\ ~In("\"", s) THEN "\"" \o s \o "\"" ELSE "'" \o s \o "'"

ReprValue(key, v) == IF key \in NumericKeys THEN IntToStr(v) ELSE ReprStr(v)

RECURSIVE DictItems(_, _)
DictItems(d, i) ==
    IF i > Len(KeyOrder) THEN << >>
    ELSE LET k == KeyOrder[i]
         IN  IF k \in DOMAIN d
             THEN << ReprStr(k) \o ": " \o ReprValue(k, d[k]) >> \o DictItems(d, i + 1)
             ELSE DictItems(d, i + 1)

\* Python: str(ctx) of a dict
DictStr(d) == "{" \o Join(", ", DictItems(d, 1)) \o "}"

\* KVCacheContextManager._format_context
FormatContext(d) ==
    IF "type" \in DOMAIN d /\ d["type"] = "calendar" THEN
        "Calendar: " \o Get(d, "title", "") \o " at " \o Get(d, "time", "") \o ". "
            \o Get(d, "description", "")
    ELSE IF "type" \in DOMAIN d /\ d["type"] = "email" THEN
        "Email from " \o Get(d, "sender", "") \o ": " \o Get(d, "subject", "") \o ". "
            \o Get(d, "body", "")
    ELSE IF "type" \in DOMAIN d /\ d["type"] = "fitness" THEN
        "Fitness: " \o Get(d, "activity_type", "") \o " at " \o Get(d, "time", "")
            \o ". Steps: " \o ValueStr("steps", Get(d, "steps", 0))
            \o ", HR: " \o ValueStr("heart_rate", Get(d, "heart_rate", 0))
    ELSE IF "type" \in DOMAIN d /\ d["type"] = "music" THEN
        "Music: " \o Get(d, "track_name", "") \o " by " \o Get(d, "artist", "")
            \o " (" \o Get(d, "genre", "") \o ", " \o Get(d, "mood", "") \o ")"
    ELSE DictStr(d)

(***************************************************************************)
(* KVCacheContextManager.add_contexts.  The cache maps a key to the list   *)
(* of the objects indexed under it.  An entry [pos, oid, d] is the object  *)
(* oid with dict d; pos, the position at which add_contexts met it, is     *)
(* kept beside it to tell the entries of the corpus apart.                 *)
(***************************************************************************)
Keywords == << "urgent", "meeting", "workout", "stressed", "deadline", "happy", "tired" >>

EmptyCache == [k \in {} |-> << >>]

AddToBucket(cache, key, e) ==
    IF key \in DOMAIN cache
    THEN [cache EXCEPT ![key] = Append(@, e)]
    ELSE cache @@ (key :> << e >>)

\* the hour string add_contexts takes from a timestamp
HourOf(t) == IF In(" ", t) THEN SplitFirst(SplitSecond(t, " "), ":") ELSE "00"

RECURSIVE KeywordKeys(_, _)
KeywordKeys(text, i) ==
    IF i > Len(Keywords) THEN << >>
    ELSE IF In(Keywords[i], text)
         THEN << "keyword_" \o Keywords[i] >> \o KeywordKeys(text, i + 1)
         ELSE KeywordKeys(text, i + 1)

\* the keys under which add_contexts indexes a dict, in the order in which it
\* appends the object to their buckets: type, hour, keywords
KeysOf(d) ==
    << Get(d, "type", "unknown") >>
        \o (IF "time" \in DOMAIN d THEN << "hour_" \o HourOf(d["time"]) >> ELSE << >>)
        \o KeywordKeys(Lower(DictStr(d)), 1)

RECURSIVE AddToBuckets(_, _, _, _)
AddToBuckets(cache, keys, e, i) ==
    IF i > Len(keys) THEN cache
    ELSE AddToBuckets(AddToBucket(cache, keys[i], e), keys, e, i + 1)

IndexOne(cache, e) == AddToBuckets(cache, KeysOf(e.d), e, 1)

RECURSIVE IndexFrom(_, _, _)
IndexFrom(cache, contexts, i) ==
    IF i > Len(contexts) THEN cache
    ELSE IndexFrom(IndexOne(cache, [pos |-> i, oid |-> contexts[i].oid, d |-> contexts[i].d]),
                   contexts, i + 1)

\* the manager's fields after add_contexts(contexts)
AddContextsResult(contexts) ==
    [ all_contexts |-> [i \in 1..Len(contexts) |->
                          [pos |-> i, oid |-> contexts[i].oid, d |-> contexts[i].d]],
      cache |-> IndexFrom(EmptyCache, contexts, 1) ]

\* add_contexts that indexes into the buckets the manager already has
AddContextsKeepingCache(m, contexts) ==
    [ all_contexts |-> AddContextsResult(contexts).all_contexts,
      cache |-> IndexFrom(m.cache, contexts, 1) ]

\* add_contexts(contexts) on a manager m: both fields are assigned anew
AddContexts(m, contexts) == AddContextsResult(contexts)

\* the manager's fields after KVCacheContextManager.__init__
NewManager == [all_contexts |-> << >>, cache |-> EmptyCache]

(***************************************************************************)
(* KVCacheContextManager.retrieve.  The locals of a call are the record    *)
(* r = [retrieved, seen]: retrieved lists what was appended, each with the *)
(* formatted text the code appends, the entry's position, and the step of  *)
(* the cascade that appended it; seen is the set of the id()s met.         *)
(***************************************************************************)
TypeOrder == << "calendar", "email", "fitness", "music" >>

\* type_keywords without the words of the fitness type that a query of the
\* retrieve stage holds
TypeKeywordsWithoutActivity ==
    [ calendar |-> << "calendar", "meeting", "event", "appointment" >>,
      email    |-> << "email", "message", "mail" >>,
      fitness  |-> << "fitness", "exercise", "steps", "heart" >>,
      music    |-> << "music", "song", "track", "playlist" >> ]

TypeKeywords ==
    [ calendar |-> << "calendar", "meeting", "event", "appointment" >>,
      email    |-> << "email", "message", "mail" >>,
      fitness  |-> << "fitness", "workout", "exercise", "steps", "heart", "activity" >>,
      music    |-> << "music", "song", "track", "playlist" >> ]

\* Python: any(kw in query_lower for kw in keywords)
AnyIn(keywords, query_lower) == \E i \in 1..Len(keywords) : In(keywords[i], query_lower)

NoLocals == [retrieved |-> << >>, seen |-> {}]

\* PullFrom without the test of seen: every object of the bucket is appended
RECURSIVE PullFromNoSeen(_, _, _, _, _)
PullFromNoSeen(r, bucket, i, top_k, step) ==
    IF i > Len(bucket) THEN r
    ELSE LET r2 == [ retrieved |-> Append(r.retrieved,
                                      [ pos |-> bucket[i].pos,
                                        text |-> FormatContext(bucket[i].d),
                                        step |-> step ]),
                     seen |-> r.seen \cup {bucket[i].oid} ]
         IN  IF Len(r2.retrieved) >= top_k THEN r2
             ELSE PullFromNoSeen(r2, bucket, i + 1, top_k, step)

\* the loop "for ctx in bucket: if id(ctx) not in seen: append, add; break at top_k"
RECURSIVE PullFrom(_, _, _, _, _)
PullFrom(r, bucket, i, top_k, step) ==
    IF i > Len(bucket) THEN r
    ELSE IF bucket[i].oid \in r.seen THEN PullFrom(r, bucket, i + 1, top_k, step)
    ELSE LET r2 == [ retrieved |-> Append(r.retrieved,
                                      [ pos |-> bucket[i].pos,
                                        text |-> FormatContext(bucket[i].d),
                                        step |-> step ]),
                     seen |-> r.seen \cup {bucket[i].oid} ]
         IN  IF Len(r2.retrieved) >= top_k THEN r2
             ELSE PullFrom(r2, bucket, i + 1, top_k, step)

\* the bucket of key, pulled when the key is in the cache
PullKey(r, cache, key, top_k, step) ==
    IF key \in DOMAIN cache THEN PullFrom(r, cache[key], 1, top_k, step) ELSE r

\* 1. match by type
RECURSIVE CategoryLoop(_, _, _, _, _)
CategoryLoop(r, cache, query_lower, top_k, i) ==
    IF i > Len(TypeOrder) THEN r
    ELSE IF AnyIn(TypeKeywords[TypeOrder[i]], query_lower)
         THEN LET r2 == PullKey(r, cache, TypeOrder[i], top_k, "category")
              IN  IF Len(r2.retrieved) >= top_k THEN r2
                  ELSE CategoryLoop(r2, cache, query_lower, top_k, i + 1)
         ELSE CategoryLoop(r, cache, query_lower, top_k, i + 1)

\* CategoryStep that leaves the loop after the first category whose vocabulary
\* occurs in the query, whether or not top_k items were collected
CategoryStepFirstMatch(r, cache, query_lower, top_k) ==
    LET matched == {i \in 1..Len(TypeOrder) : AnyIn(TypeKeywords[TypeOrder[i]], query_lower)}
    IN  IF matched = {} THEN r
        ELSE PullKey(r, cache, TypeOrder[CHOOSE i \in matched : \A j \in matched : i <= j],
                     top_k, "category")

CategoryStep(r, cache, query_lower, top_k) == CategoryLoop(r, cache, query_lower, top_k, 1)

\* the position after the white space that starts at position j of s
SkipSpace(s, j) ==
    LET stops == {k \in j..Len(s) : ~IsSpace(CharAt(s, k))}
    IN  IF stops = {} THEN Len(s) + 1
        ELSE CHOOSE k \in stops : \A l \in stops : k <= l

DigitsAt(s, i, n) ==
    /\ i + n - 1 <= Len(s)
    /\ \A j \in i..(i + n - 1) : IsDigit(CharAt(s, j))

\* \b before the digit at position i
BoundaryBefore(s, i) == i = 1 \/ ~IsWordChar(CharAt(s, i - 1))

\* \b(\d{n})\s*suffix matches at position i
SuffixMatchAt(s, i, n, suffix) ==
    /\ BoundaryBefore(s, i)
    /\ DigitsAt(s, i, n)
    /\ LET j == SkipSpace(s, i + n)
       IN  Slice(s, j, j + Len(suffix) - 1) = suffix

\* re.search(r'\b(\d{1,2})\s*<suffix>', s): group 1 of the leftmost match, the
\* longer run of digits tried first; "" when there is no match
SearchHourSuffix(s, suffix) ==
    LET starts == {i \in 1..Len(s) :
                       SuffixMatchAt(s, i, 2, suffix) \/ SuffixMatchAt(s, i, 1, suffix)}
    IN  IF starts = {} THEN ""
        ELSE LET i == CHOOSE x \in starts : \A y \in starts : x <= y
             IN  IF SuffixMatchAt(s, i, 2, suffix) THEN SubSeq(s, i, i + 1)
                 ELSE SubSeq(s, i, i)

\* re.search(r'\b(\d{2}):\d{2}', s): group 1 of the leftmost match, "" when none
SearchClock(s) ==
    LET starts == {i \in 1..Len(s) :
                       /\ BoundaryBefore(s, i)
                       /\ DigitsAt(s, i, 2)
                       /\ CharAt(s, i + 2) = ":"
                       /\ DigitsAt(s, i + 3, 2)}
    IN  IF starts = {} THEN ""
        ELSE LET i == CHOOSE x \in starts : \A y \in starts : x <= y
             IN  SubSeq(s, i, i + 1)

\* extract_hour without the cases of 12
ExtractHourPlain(group, is_pm) ==
    LET hour == ParseInt(group)
    IN  IF is_pm THEN hour + 12 ELSE hour

\* extract_hour
ExtractHour(group, is_pm) ==
    LET hour == ParseInt(group)
    IN  IF is_pm THEN (IF hour = 12 THEN 12 ELSE hour + 12)
        ELSE (IF hour = 12 THEN 0 ELSE hour)

\* hour_patterns, each as the hour it extracts from the query, -1 when the
\* pattern does not match
PatternHours(query_lower) ==
    LET pm == SearchHourSuffix(query_lower, "pm")
        am == SearchHourSuffix(query_lower, "am")
        ck == SearchClock(query_lower)
    IN  << IF pm = "" THEN -1 ELSE ExtractHour(pm, TRUE),
           IF am = "" THEN -1 ELSE ExtractHour(am, FALSE),
           IF ck = "" THEN -1 ELSE ParseInt(ck) >>

RECURSIVE HourLoop(_, _, _, _, _)
HourLoop(r, cache, hours, top_k, i) ==
    IF i > Len(hours) THEN r
    ELSE IF hours[i] >= 0
         THEN LET r2 == PullKey(r, cache, "hour_" \o Format02d(hours[i]), top_k, "hour")
              IN  IF Len(r2.retrieved) >= top_k THEN r2
                  ELSE HourLoop(r2, cache, hours, top_k, i + 1)
         ELSE HourLoop(r, cache, hours, top_k, i + 1)

\* HourStep without the test that fewer than top_k items were collected
HourStepUnguarded(r, cache, query_lower, top_k) ==
    HourLoop(r, cache, PatternHours(query_lower), top_k, 1)

\* 2. match by hour, if still short of top_k
HourStep(r, cache, query_lower, top_k) ==
    IF Len(r.retrieved) < top_k
    THEN HourLoop(r, cache, PatternHours(query_lower), top_k, 1)
    ELSE r

RECURSIVE KeywordLoop(_, _, _, _, _)
KeywordLoop(r, cache, query_lower, top_k, i) ==
    IF i > Len(Keywords) THEN r
    ELSE IF In(Keywords[i], query_lower)
         THEN LET r2 == PullKey(r, cache, "keyword_" \o Keywords[i], top_k, "keyword")
              IN  IF Len(r2.retrieved) >= top_k THEN r2
                  ELSE KeywordLoop(r2, cache, query_lower, top_k, i + 1)
         ELSE KeywordLoop(r, cache, query_lower, top_k, i + 1)

\* 3. match by keywords, if still short of top_k
KeywordStep(r, cache, query_lower, top_k) ==
    IF Len(r.retrieved) < top_k
    THEN KeywordLoop(r, cache, query_lower, top_k, 1)
    ELSE r

\* Python: reversed(xs[-n:]) for n >= 1
ReversedTail(xs, n) ==
    LET m == IF n < Len(xs) THEN n ELSE Len(xs)
    IN  [i \in 1..m |-> xs[Len(xs) - i + 1]]

\* retrieve without the fallback
RecencyStepSkipped(r, all_contexts, top_k) == r

\* 4. fallback: the most recent contexts, if still short of top_k
RecencyStep(r, all_contexts, top_k) ==
    IF Len(r.retrieved) < top_k
    THEN PullFrom(r, ReversedTail(all_contexts, top_k), 1, top_k, "recency")
    ELSE r

\* Python: xs[:n] for n >= 0
Prefix(xs, n) == SubSeq(xs, 1, IF n < Len(xs) THEN n ELSE Len(xs))

\* relevance_score, in hundredths
RelevanceScore(r, top_k) ==
    IF Len(r.retrieved) >= top_k THEN 90
    ELSE IF Len(r.retrieved) > 0 THEN 70
    ELSE 0

\* the ContextResult of retrieve (latency_ms is the wall clock, left out);
\* items lists the entries whose texts make up the context
MakeResult(r, top_k) ==
    LET kept == Prefix(r.retrieved, top_k)
    IN  [ context |-> Join("\n", [i \in 1..Len(kept) |-> kept[i].text]),
          items |-> kept,
          method |-> "kv_cache",
          relevance_score |-> RelevanceScore(r, top_k) ]

\* retrieve(query, top_k) on a manager m = [all_contexts, cache], start to end
Retrieve(m, query, top_k) ==
    LET q  == Lower(query)
        r1 == CategoryStep(NoLocals, m.cache, q, top_k)
        r2 == HourStep(r1, m.cache, q, top_k)
        r3 == KeywordStep(r2, m.cache, q, top_k)
        r4 == RecencyStep(r3, m.all_contexts, top_k)
    IN  MakeResult(r4, top_k)

(***************************************************************************)
(* The inputs of the model: dicts as the ingest stage builds them from the *)
(* records of data_generators.py, one dict without type and time, and the  *)
(* queries.                                                                *)
(***************************************************************************)
\* Python: {**d, key: v}
Put(d, key, v) == [k \in DOMAIN d \cup {key} |-> IF k = key THEN v ELSE d[k]]

CalendarEvent ==
    [ time |-> "2024-01-15 15:00:00", title |-> "Meeting",
      description |-> "Project deadline discussion" ]

Email ==
    [ time |-> "2024-01-15 08:00:00", subject |-> "Urgent update",
      body |-> "I'm feeling stressed about the deadline. Can we discuss?",
      sender |-> "colleague@company.com", priority |-> "high" ]

FitnessMetric ==
    [ time |-> "2024-01-15 15:30:00", steps |-> 500, heart_rate |-> 70,
      activity_type |-> "workout" ]

MusicPreference ==
    [ track_name |-> "Midnight Dreams", artist |-> "The Beats", genre |-> "jazz",
      mood |-> "calm" ]

CalendarDict == Put(CalendarEvent, "type", "calendar")
EmailDict == Put(Email, "type", "email")
FitnessDict == Put(FitnessMetric, "type", "fitness")
MusicDict == Put(MusicPreference, "type", "music")
NoteDict == [ note |-> "tired today" ]

DictPool == {CalendarDict, EmailDict, FitnessDict, MusicDict, NoteDict}

Queries ==
    { "Recent email: Urgent update Current activity: workout",
      "3pm meeting",
      "user context and mood",
      "Playlist for my Workout at 15:30",
      "8am deadline",
      "calendar email fitness music" }

TopKs == 0..MaxTopK

\* the lists a caller can pass to add_contexts: up to MaxCorpus objects, an
\* object possibly listed more than once (the same oid, so the same dict);
\* oids are numbered in the order of first occurrence
Corpora ==
    UNION { { c \in [1..n -> [oid : 1..MaxCorpus, d : DictPool]] :
                /\ \A i \in 1..n : \A j \in 1..n :
                       c[i].oid = c[j].oid => c[i].d = c[j].d
                /\ \A i \in 1..n :
                       c[i].oid = 1 \/ \E j \in 1..(i - 1) : c[j].oid = c[i].oid - 1 }
            : n \in 0..MaxCorpus }

\* add_contexts and the lowercased query, evaluated once for every input
\* (@@ makes TLC build the table instead of evaluating it at every use)
Indexed == [contexts \in Corpora |-> AddContextsResult(contexts)] @@ << >>

\* queries with a time expression: <h>pm, <h>am and <hh>:<mm>, for the
\* numbers h in 0..MaxHour
HourForms ==
    { [kind |-> "pm", tail |-> "pm meeting"], [kind |-> "pm", tail |-> "pm lunch"],
      [kind |-> "am", tail |-> "am call"], [kind |-> "am", tail |-> "am"],
      [kind |-> "clock", tail |-> ":30 standup"] }

HourQuery(h, form) ==
    (IF form.kind = "clock" THEN Format02d(h) ELSE IntToStr(h)) \o form.tail

HourQueries == { HourQuery(h, form) : h \in 0..MaxHour, form \in HourForms }

Lowered == [query \in Queries \cup HourQueries |-> Lower(query)] @@ << >>

(***************************************************************************)
(* LLMOrchestrator.  The state threaded through the nodes of the graph is  *)
(* a dict.  latency_breakdown is modelled by the set of its keys: its      *)
(* values are wall-clock durations.  A list of the user data is            *)
(* [kind, items]: kind "list" is a Python list; kind "iter" is an iterable *)
(* that is no sequence (a generator, a map object): it can be iterated and *)
(* is true, and subscripting it raises TypeError.  NotAMapping is an entry *)
(* that is no dict (a string), which {**entry} rejects.                    *)
(***************************************************************************)
EmptyDict == [k \in {} |-> ""]

List(items) == [kind |-> "list", items |-> items]
Iter(items) == [kind |-> "iter", items |-> items]

NotAMapping == [nonmapping |-> "oops"]
IsMapping(entry) == "nonmapping" \notin DOMAIN entry

\* Python: bool(user_data.get(key))
Truthy(user_data, key) ==
    key \in DOMAIN user_data
        /\ (user_data[key].kind = "iter" \/ Len(user_data[key].items) > 0)

\* Python: user_data.get(key, []), as the sequence a for loop runs over
Entries(user_data, key) == IF key \in DOMAIN user_data THEN user_data[key].items ELSE << >>

\* the category lists read with the emails before the calendar
CategoryListsEmailsFirst ==
    << [key |-> "emails", type |-> "email"],
       [key |-> "calendar", type |-> "calendar"],
       [key |-> "fitness", type |-> "fitness"],
       [key |-> "music", type |-> "music"] >>

\* the category lists of the user data, in the order _ingest_data reads them,
\* with the type it tags their entries with
CategoryLists ==
    << [key |-> "calendar", type |-> "calendar"],
       [key |-> "emails", type |-> "email"],
       [key |-> "fitness", type |-> "fitness"],
       [key |-> "music", type |-> "music"] >>

RECURSIVE FlattenFrom(_, _)
FlattenFrom(user_data, i) ==
    IF i > Len(CategoryLists) THEN << >>
    ELSE LET entries == Entries(user_data, CategoryLists[i].key)
         IN  [j \in 1..Len(entries) |-> Put(entries[j], "type", CategoryLists[i].type)]
                 \o FlattenFrom(user_data, i + 1)

\* whether every {**entry, "type": ...} of _ingest_data succeeds
AllMappings(user_data) ==
    \A i \in 1..Len(CategoryLists) :
        LET entries == Entries(user_data, CategoryLists[i].key)
        IN  \A j \in 1..Len(entries) : IsMapping(entries[j])

\* the list _ingest_data passes to add_contexts: a fresh dict for every entry
IngestContexts(user_data) ==
    LET dicts == FlattenFrom(user_data, 1)
    IN  [i \in 1..Len(dicts) |-> [oid |-> i, d |-> dicts[i]]]

\* Python: xs[-1] of a non-empty list
Last(xs) == xs[Len(xs)]

\* the query of _retrieve_context, for user data whose lists can be subscripted
BuildQuery(user_data) ==
    LET email_part ==
            IF Truthy(user_data, "emails")
            THEN << "Recent email: " \o Get(Last(user_data["emails"].items), "subject", "") >>
            ELSE << >>
        fitness_part ==
            IF Truthy(user_data, "fitness")
            THEN << "Current activity: "
                       \o Get(Last(user_data["fitness"].items), "activity_type", "") >>
            ELSE << >>
        query_parts == email_part \o fitness_part
    IN  IF Len(query_parts) > 0 THEN Join(" ", query_parts) ELSE "user context and mood"

\* whether user_data[key][...] raises: the list is true and cannot be subscripted
SubscriptRaises(user_data, key) == Truthy(user_data, key) /\ user_data[key].kind = "iter"

\* Python: xs[-n:] for n >= 1
Tail3(xs) == SubSeq(xs, IF Len(xs) > 3 THEN Len(xs) - 2 ELSE 1, Len(xs))

\* music_context of _generate_nudge
MusicContext(user_data) ==
    IF Truthy(user_data, "music")
    THEN LET recent == Tail3(user_data["music"].items)
         IN  Join("\n", [i \in 1..Len(recent) |->
                 "- " \o Get(recent[i], "track_name", "") \o " by "
                      \o Get(recent[i], "artist", "") \o " ("
                      \o Get(recent[i], "mood", "") \o ")"])
    ELSE ""

\* Python: s.strip()
Strip(s) ==
    LET inked == {i \in 1..Len(s) : ~IsSpace(CharAt(s, i))}
    IN  IF inked = {} THEN ""
        ELSE SubSeq(s, CHOOSE i \in inked : \A j \in inked : i <= j,
                       CHOOSE i \in inked : \A j \in inked : i >= j)

\* What a node did: it returned the state, or raised error.
Returned(state, manager) == [raised |-> FALSE, state |-> state, cm |-> manager, error |-> ""]
Raised(state, manager, error) == [raised |-> TRUE, state |-> state, cm |-> manager, error |-> error]

AddLatency(state, key) ==
    Put(state, "latency_breakdown", Get(state, "latency_breakdown", {}) \cup {key})

\* _ingest_data; cm_ok: add_contexts of the context manager does not raise
IngestData(state, manager, cm_ok) ==
    LET user_data == Get(state, "user_data", EmptyDict)
    IN  IF ~AllMappings(user_data)
        THEN Raised(state, manager, "'str' object is not a mapping")
        ELSE IF ~cm_ok
        THEN Raised(state, manager, "add_contexts failed")
        ELSE Returned(AddLatency(state, "ingestion"),
                      AddContexts(manager, IngestContexts(user_data)))

\* _retrieve_context; cm_ok: retrieve of the context manager does not raise
RetrieveContext(state, manager, cm_ok) ==
    LET user_data == Get(state, "user_data", EmptyDict)
    IN  IF SubscriptRaises(user_data, "emails") \/ SubscriptRaises(user_data, "fitness")
        THEN Raised(state, manager, "object is not subscriptable")
        ELSE IF ~cm_ok
        THEN Raised(state, manager, "retrieve failed")
        ELSE LET result == Retrieve(manager, BuildQuery(user_data), 3)
             IN  Returned(AddLatency(Put(state, "context", result.context), "retrieval"),
                          manager)

\* state["cost_tokens"] after the prompt tokens of a response alone were added
AddTokensPromptOnly(state, response) ==
    LET cost == Get(state, "cost_tokens", [input |-> 0, output |-> 0])
    IN  IF response.has_metadata
        THEN Put(state, "cost_tokens",
                 [ input |-> cost.input + response.prompt_tokens, output |-> cost.output ])
        ELSE state

\* state["cost_tokens"] after the usage of a response was added
AddTokens(state, response) ==
    LET cost == Get(state, "cost_tokens", [input |-> 0, output |-> 0])
    IN  IF response.has_metadata
        THEN Put(state, "cost_tokens",
                 [ input |-> cost.input + response.prompt_tokens,
                   output |-> cost.output + response.completion_tokens ])
        ELSE state

\* _analyze_context that records no error when the language model fails
AnalyzeContextSilent(state, manager, response) ==
    LET after ==
            IF response.ok
            THEN AddTokens(Put(state, "analysis", response.content), response)
            ELSE Put(state, "analysis", "Unable to analyze context.")
    IN  Returned(AddLatency(after, "analysis"), manager)

\* _analyze_context; response is what self.llm.invoke did
AnalyzeContext(state, manager, response) ==
    LET after ==
            IF response.ok
            THEN AddTokens(Put(state, "analysis", response.content), response)
            ELSE Put(Put(state, "error", "Analysis error: " \o response.error),
                     "analysis", "Unable to analyze context.")
    IN  Returned(AddLatency(after, "analysis"), manager)

\* _generate_nudge that forgets the analysis when the language model fails
GenerateNudgeNodeForgetting(state, manager, response) ==
    LET user_data == Get(state, "user_data", EmptyDict)
        after ==
            IF response.ok
            THEN AddTokens(Put(state, "nudge", Strip(response.content)), response)
            ELSE Put(Put(Put(state, "error", "Nudge generation error: " \o response.error),
                         "nudge", "I'm here to help! How can I assist you today?"),
                     "analysis", "")
    IN  IF SubscriptRaises(user_data, "music")
        THEN Raised(state, manager, "object is not subscriptable")
        ELSE Returned(AddLatency(after, "nudge_generation"), manager)

\* _generate_nudge; response is what self.llm.invoke did
GenerateNudgeNode(state, manager, response) ==
    LET user_data == Get(state, "user_data", EmptyDict)
        after ==
            IF response.ok
            THEN AddTokens(Put(state, "nudge", Strip(response.content)), response)
            ELSE Put(Put(state, "error", "Nudge generation error: " \o response.error),
                     "nudge", "I'm here to help! How can I assist you today?")
    IN  IF SubscriptRaises(user_data, "music")
        THEN Raised(state, manager, "object is not subscriptable")
        ELSE Returned(AddLatency(after, "nudge_generation"), manager)

\* _build_graph: the entry point and the edges
EntryPoint == "ingest_data"

\* the edges without the one into analyze_context
EdgesSkippingAnalyze ==
    [ ingest_data |-> "retrieve_context", retrieve_context |-> "generate_nudge",
      analyze_context |-> "generate_nudge", generate_nudge |-> "END" ]

Edges ==
    [ ingest_data |-> "retrieve_context", retrieve_context |-> "analyze_context",
      analyze_context |-> "generate_nudge", generate_nudge |-> "END" ]

Nodes == DOMAIN Edges

\* generate_nudge: initial_state
InitialState(user_data) ==
    ("user_data" :> user_data) @@ ("latency_breakdown" :> {})
        @@ ("cost_tokens" :> [input |-> 0, output |-> 0])

\* final_state as the graph returned it
FinalStateAsReturned(final_state) == final_state

\* generate_nudge: what it returns when the graph returned final_state
FinalState(final_state) == AddLatency(final_state, "total")

\* the except clause of generate_nudge that lets the exception through
HandleExceptionReraise(error) == [kind |-> "raise", value |-> ("error" :> error)]

\* generate_nudge: the except clause
HandleException(error) ==
    [ kind |-> "return",
      value |-> ("error" :> error) @@ ("nudge" :> "Error generating nudge.")
                    @@ ("latency_breakdown" :> {"total"}) ]

(***************************************************************************)
(* What generate_nudge is called with, and what the language model and the *)
(* context manager do when they are called.                                *)
(***************************************************************************)
FullData ==
    [ calendar |-> List(<< CalendarEvent >>), emails |-> List(<< Email >>),
      fitness |-> List(<< FitnessMetric >>), music |-> List(<< MusicPreference >>) ]

EmailData == [ emails |-> List(<< Email >>), music |-> List(<< >>) ]

MalformedData == [ calendar |-> List(<< NotAMapping >>), emails |-> List(<< Email >>) ]

MusicStreamData == [ calendar |-> List(<< CalendarEvent >>), music |-> Iter(<< MusicPreference >>) ]

EmailStreamData == [ emails |-> Iter(<< Email >>), fitness |-> List(<< FitnessMetric >>) ]

\* one email and one fitness entry
ScenarioData == [ emails |-> List(<< Email >>), fitness |-> List(<< FitnessMetric >>) ]

\* two calendar events, the first with a type of its own, and an email
TypedData ==
    [ calendar |-> List(<< Put(Put(CalendarEvent, "type", "reminder"), "title", "Dentist"),
                           CalendarEvent >>),
      emails |-> List(<< Email >>) ]

UserDatas ==
    { FullData, EmptyDict, EmailData, MalformedData, MusicStreamData, EmailStreamData,
      ScenarioData, TypedData }

LLMFailure ==
    [ ok |-> FALSE, content |-> "", has_metadata |-> FALSE,
      prompt_tokens |-> 0, completion_tokens |-> 0, error |-> "Connection error." ]

LLMResponse(content, has_metadata, prompt_tokens, completion_tokens) ==
    [ ok |-> TRUE, content |-> content, has_metadata |-> has_metadata,
      prompt_tokens |-> prompt_tokens, completion_tokens |-> completion_tokens,
      error |-> "" ]

Responses ==
    { LLMFailure, LLMResponse(" Stretch a bit.\n", FALSE, 0, 0) }
        \cup { LLMResponse("Take a short walk.", TRUE, p, c) :
                   p \in 0..MaxTokens, c \in 0..MaxTokens }

\* the callers of one orchestrator
Callers == {"A", "B"}

(***************************************************************************)
(* VectorDBContextManager.  The encoder and the FAISS index are libraries:  *)
(* lib is the installed build.  Its encoder is a function of the text alone *)
(* (a point on a line, so that the L2 distance the index reports is the     *)
(* square of a difference), the order of equally distant entries is fixed   *)
(* by the build, and so is what the index does with an empty batch and with *)
(* a search for 0 neighbours.                                               *)
(***************************************************************************)
Libs == [ encoder : { [scale |-> 1, modulus |-> 3], [scale |-> 3, modulus |-> 4] },
          ties : {"low", "high"},
          add_empty : {"raises", "accepted"}, search_zero : {"raises", "empty"} ]

\* self.encoder.encode([text])
Encode(lib, text) == (Len(text) \div lib.encoder.scale) % lib.encoder.modulus

\* VectorDBContextManager.__init__
NewVectorDB == [ index |-> [built |-> FALSE, xb |-> << >>], contexts |-> << >>, metadata |-> << >> ]

\* add_contexts that extends self.contexts and self.metadata
VecAddContextsExtending(lib, m, contexts) ==
    LET texts == m.contexts \o [i \in 1..Len(contexts) |-> FormatContext(contexts[i])]
    IN  [ raised |-> FALSE,
          vdb |-> [ index |-> [built |-> TRUE,
                               xb |-> [i \in 1..Len(texts) |-> Encode(lib, texts[i])]],
                    contexts |-> texts,
                    metadata |-> m.metadata \o contexts ] ]

\* add_contexts(contexts) on the manager m: whether it raised, and the
\* manager after it
VecAddContexts(lib, m, contexts) ==
    LET texts == [i \in 1..Len(contexts) |-> FormatContext(contexts[i])]
        embeddings == [i \in 1..Len(texts) |-> Encode(lib, texts[i])]
    IN  IF Len(contexts) = 0 /\ lib.add_empty = "raises"
        THEN [ raised |-> TRUE,
               vdb |-> [ index |-> [built |-> TRUE, xb |-> << >>],
                         contexts |-> texts, metadata |-> contexts ] ]
        ELSE [ raised |-> FALSE,
               vdb |-> [ index |-> [built |-> TRUE, xb |-> embeddings],
                         contexts |-> texts, metadata |-> contexts ] ]

\* self.index.search(query_embedding, k), 1 <= k <= Len(xb): the positions of
\* the k nearest entries, nearest first, and their distances
Search(lib, xb, point, k) ==
    LET dist(i) == (xb[i] - point) * (xb[i] - point)
        before(i, j) == \/ dist(i) < dist(j)
                        \/ dist(i) = dist(j) /\ (IF lib.ties = "low" THEN i < j ELSE i > j)
        rank(i) == Cardinality({j \in 1..Len(xb) : before(j, i)})
        indices == [r \in 1..k |-> CHOOSE i \in 1..Len(xb) : rank(i) = r - 1]
    IN  [ indices |-> indices, distances |-> [r \in 1..k |-> dist(indices[r])] ]

\* what a call of the manager left: the operation, whether it raised, and for
\* retrieve the arguments and the ContextResult (relevance_score in
\* hundredths; items lists the positions of self.contexts that were read)
VecOutcome(op, raised, query, top_k, items, context, relevance_score) ==
    [ op |-> op, raised |-> raised, query |-> query, top_k |-> top_k, items |-> items,
      context |-> context, method |-> IF op = "retrieve" /\ ~raised THEN "vector_db" ELSE "none",
      relevance_score |-> relevance_score ]

NoOutcome == VecOutcome("none", FALSE, "", 0, << >>, "", 0)

\* retrieve(query, top_k) on the manager m
VecRetrieve(lib, m, query, top_k) ==
    LET n == Len(m.contexts)
        k == IF top_k < n THEN top_k ELSE n
    IN  IF ~m.index.built THEN VecOutcome("retrieve", TRUE, query, top_k, << >>, "", 0)
        ELSE IF k <= 0 THEN
            VecOutcome("retrieve", lib.search_zero = "raises", query, top_k, << >>, "", 0)
        ELSE
            LET found == Search(lib, m.index.xb, Encode(lib, query), k)
                read == SelectSeq(found.indices, LAMBDA idx : idx - 1 < n)
            IN  VecOutcome("retrieve", FALSE, query, top_k, read,
                           Join("\n", [i \in 1..Len(read) |-> m.contexts[read[i]]]),
                           100 \div (1 + found.distances[1]))

(***************************************************************************)
(* main: the benchmark of the two managers and the decision between them.  *)
(* The means are in hundredths (relevance) and in milliseconds (latency).   *)
(* On hundredths the float comparison vec > kv * 1.1 of main agrees with    *)
(* the comparison of the exact products, 10 * vec > 11 * kv.                *)
(***************************************************************************)
\* main before the benchmark returned
NoBenchmark ==
    [ pc |-> "benchmark",
      vector_db |-> [avg_latency_ms |-> 0, avg_relevance |-> 0],
      kv_cache |-> [avg_latency_ms |-> 0, avg_relevance |-> 0] ]

\* the decision with >= for >
UseVectorDBAtLeast(results) ==
    results.vector_db.avg_relevance * 10 >= results.kv_cache.avg_relevance * 11

\* use_vector_db as main computes it
UseVectorDB(results) ==
    results.vector_db.avg_relevance * 10 > results.kv_cache.avg_relevance * 11

(***************************************************************************)
(* The state: cm is the context manager (the one of the orchestrator when  *)
(* the orchestrator runs), the kv_ variables are a call of its retrieve    *)
(* taken step by step, and the p_ variables are the calls of               *)
(* generate_nudge, one per caller: where the call is, its state dict, what *)
(* it gave its caller, the exception on its way to the except clause, and  *)
(* two records of what happened: the nodes that ran and whether they       *)
(* raised, and the calls of the language model and whether they failed.    *)
(* p_replaced records whether the last ingest stage that completed found   *)
(* an index holding a dict that its own contexts do not hold.              *)
(* use_vector_db is the manager the orchestrator was built with, v_lib the *)
(* installed build of the libraries, vdb the vector manager, v_out what    *)
(* its last call did, and benchmark_results what main holds of the         *)
(* benchmark.                                                              *)
(***************************************************************************)
VARIABLES cm, kv_pc, kv_query, kv_top_k, kv_r, kv_result,
          p_pc, p_state, p_result, p_error, p_ran, p_llm, p_replaced,
          use_vector_db, v_lib, vdb, v_out, benchmark_results

kv_vars == << cm, kv_pc, kv_query, kv_top_k, kv_r, kv_result >>

kv_call == << kv_pc, kv_query, kv_top_k, kv_r, kv_result >>

p_vars == << p_pc, p_state, p_result, p_error, p_ran, p_llm, p_replaced >>

v_vars == << use_vector_db, v_lib, vdb, v_out, benchmark_results >>

vars == << cm, kv_pc, kv_query, kv_top_k, kv_r, kv_result,
           p_pc, p_state, p_result, p_error, p_ran, p_llm, p_replaced,
           use_vector_db, v_lib, vdb, v_out, benchmark_results >>

NoResult == [context |-> "", items |-> << >>, method |-> "none", relevance_score |-> 0]

NoReturn == [kind |-> "none", value |-> EmptyDict]

KvIdle ==
    /\ kv_pc = "idle"
    /\ kv_query = ""
    /\ kv_top_k = 0
    /\ kv_r = NoLocals
    /\ kv_result = NoResult

NoCalls ==
    /\ p_pc = [c \in Callers |-> "idle"]
    /\ p_state = [c \in Callers |-> EmptyDict]
    /\ p_result = [c \in Callers |-> NoReturn]
    /\ p_error = [c \in Callers |-> ""]
    /\ p_ran = [c \in Callers |-> << >>]
    /\ p_llm = [c \in Callers |-> << >>]
    /\ p_replaced = FALSE

\* no vector manager is in use
NoVector ==
    /\ use_vector_db = FALSE
    /\ v_lib = [ encoder |-> [scale |-> 1, modulus |-> 3], ties |-> "low",
                 add_empty |-> "raises", search_zero |-> "raises" ]
    /\ vdb = NewVectorDB
    /\ v_out = NoOutcome
    /\ benchmark_results = NoBenchmark

KvInit ==
    /\ cm = NewManager
    /\ KvIdle
    /\ NoCalls
    /\ NoVector

\* add_contexts(contexts), between two calls of retrieve: any corpus goes
\* into a new manager, and a corpus of at most MaxReplacing entries replaces
\* the corpus of a manager that has one
KvAddContexts ==
    /\ kv_pc = "idle"
    /\ \E contexts \in Corpora :
           /\ cm = NewManager \/ Len(contexts) <= MaxReplacing
           /\ cm' = Indexed[contexts]
    /\ kv_pc' = "idle"
    /\ kv_query' = ""
    /\ kv_top_k' = 0
    /\ kv_r' = NoLocals
    /\ kv_result' = NoResult
    /\ UNCHANGED << p_vars, v_vars >>

\* retrieve(query, top_k) is entered
KvCall ==
    /\ kv_pc \in {"idle", "done"}
    /\ \E query \in Queries : kv_query' = query
    /\ \E top_k \in TopKs : kv_top_k' = top_k
    /\ kv_pc' = "category"
    /\ kv_r' = NoLocals
    /\ kv_result' = NoResult
    /\ UNCHANGED << cm, p_vars, v_vars >>

KvCategory ==
    /\ kv_pc = "category"
    /\ kv_r' = CategoryStep(kv_r, cm.cache, Lowered[kv_query], kv_top_k)
    /\ kv_pc' = "hour"
    /\ UNCHANGED << cm, kv_query, kv_top_k, kv_result, p_vars, v_vars >>

KvHour ==
    /\ kv_pc = "hour"
    /\ kv_r' = HourStep(kv_r, cm.cache, Lowered[kv_query], kv_top_k)
    /\ kv_pc' = "keyword"
    /\ UNCHANGED << cm, kv_query, kv_top_k, kv_result, p_vars, v_vars >>

KvKeyword ==
    /\ kv_pc = "keyword"
    /\ kv_r' = KeywordStep(kv_r, cm.cache, Lowered[kv_query], kv_top_k)
    /\ kv_pc' = "recency"
    /\ UNCHANGED << cm, kv_query, kv_top_k, kv_result, p_vars, v_vars >>

KvRecency ==
    /\ kv_pc = "recency"
    /\ kv_r' = RecencyStep(kv_r, cm.all_contexts, kv_top_k)
    /\ kv_pc' = "return"
    /\ UNCHANGED << cm, kv_query, kv_top_k, kv_result, p_vars, v_vars >>

KvReturn ==
    /\ kv_pc = "return"
    /\ kv_result' = MakeResult(kv_r, kv_top_k)
    /\ kv_pc' = "done"
    /\ UNCHANGED << cm, kv_query, kv_top_k, kv_r, p_vars, v_vars >>

KvNext ==
    \/ KvAddContexts
    \/ KvCall
    \/ KvCategory
    \/ KvHour
    \/ KvKeyword
    \/ KvRecency
    \/ KvReturn

SpecKV == KvInit /\ [][KvNext]_vars

(***************************************************************************)
(* The caller of add_contexts keeps the list it passed: self.all_contexts  *)
(* is that list object, so what the caller does to the list is done to     *)
(* all_contexts, while the buckets of cache hold the objects themselves.   *)
(***************************************************************************)
\* the entries add_contexts indexed, in the order of the list it was given
IndexedList(cache) ==
    LET entries == UNION { {cache[k][i] : i \in 1..Len(cache[k])} : k \in DOMAIN cache }
    IN  [i \in 1..Cardinality({e.pos : e \in entries}) |->
            CHOOSE e \in entries : e.pos = i]

\* the dicts of the objects a caller appends to its list
AppendedDicts == { CalendarDict, NoteDict }

\* list.append(object), list.pop() and list.reverse() on the caller's list
ListMutations(xs) ==
    { Append(xs, [pos |-> Len(xs) + 1, oid |-> MaxCorpus + 1, d |-> d]) : d \in AppendedDicts }
        \cup (IF Len(xs) > 0 THEN { SubSeq(xs, 1, Len(xs) - 1) } ELSE {})
        \cup { [i \in 1..Len(xs) |-> xs[Len(xs) - i + 1]] }

\* the caller changes the list it passed to add_contexts, once, between two
\* calls of retrieve
KvCallerMutates ==
    /\ kv_pc \in {"idle", "done"}
    /\ cm.all_contexts = IndexedList(cm.cache)
    /\ \E xs \in ListMutations(cm.all_contexts) :
           /\ xs # cm.all_contexts
           /\ cm' = [cm EXCEPT !.all_contexts = xs]
    /\ UNCHANGED << kv_call, p_vars, v_vars >>

AliasNext ==
    \/ KvNext
    \/ KvCallerMutates

SpecAlias == KvInit /\ [][AliasNext]_vars

(***************************************************************************)
(* retrieve on a corpus of two timestamped items of consecutive hours, for *)
(* the queries with a time expression.                                     *)
(***************************************************************************)
TimedItem(oid, hour) == [oid |-> oid, d |-> [time |-> "2024-01-15 " \o Format02d(hour) \o ":00:00"]]

HourAddContexts ==
    /\ kv_pc = "idle"
    /\ cm = NewManager
    /\ \E hour \in 0..(MaxHour + 12) :
           cm' = AddContexts(cm, << TimedItem(1, hour), TimedItem(2, hour + 1) >>)
    /\ UNCHANGED << kv_call, p_vars, v_vars >>

HourCall ==
    /\ kv_pc \in {"idle", "done"}
    /\ cm # NewManager
    /\ \E query \in HourQueries : kv_query' = query
    /\ \E top_k \in TopKs : kv_top_k' = top_k
    /\ kv_pc' = "category"
    /\ kv_r' = NoLocals
    /\ kv_result' = NoResult
    /\ UNCHANGED << cm, p_vars, v_vars >>

HourNext ==
    \/ HourAddContexts
    \/ HourCall
    \/ KvCategory
    \/ KvHour
    \/ KvKeyword
    \/ KvRecency
    \/ KvReturn

SpecHour == KvInit /\ [][HourNext]_vars

(***************************************************************************)
(* add_contexts on dicts that the data generators do not produce: a        *)
(* timestamp in ISO format, without a space, and an email whose priority   *)
(* is a word of the keyword vocabulary.                                    *)
(***************************************************************************)
IndexPool ==
    { EmailDict, CalendarDict, NoteDict,
      Put(CalendarDict, "time", "2024-01-15T15:00:00"),
      Put(Put(Put(EmailDict, "subject", "Project status"),
              "body", "Everything is on track. Great work team!"),
          "priority", "urgent") }

\* add_contexts(contexts) with a list of up to MaxCorpus distinct objects on
\* a new manager, or with one object on a manager that has a corpus
IndexAddContexts ==
    /\ \E n \in 1..MaxCorpus : \E dicts \in [1..n -> IndexPool] :
           /\ cm = NewManager \/ n = 1
           /\ cm' = AddContexts(cm, [i \in 1..n |-> [oid |-> i, d |-> dicts[i]]])
    /\ UNCHANGED << kv_call, p_vars, v_vars >>

SpecIndex == KvInit /\ [][IndexAddContexts]_vars

(***************************************************************************)
(* The context manager of an orchestrator: VectorDBContextManager when      *)
(* use_vector_db, KVCacheContextManager otherwise.  The caller adds         *)
(* contexts and retrieves, in any order.                                    *)
(***************************************************************************)
ManagerInit ==
    /\ use_vector_db \in BOOLEAN
    /\ v_lib \in (IF use_vector_db THEN Libs
                  ELSE {[ encoder |-> [scale |-> 1, modulus |-> 3], ties |-> "low",
                          add_empty |-> "raises", search_zero |-> "raises" ]})
    /\ vdb = NewVectorDB
    /\ v_out = NoOutcome
    /\ benchmark_results = NoBenchmark
    /\ cm = NewManager
    /\ KvIdle
    /\ NoCalls

\* add_contexts(contexts) on the vector manager, with a list of up to
\* MaxCorpus dicts; retrieve leaves the manager as it is, so the managers
\* that can be built are built before the first retrieve
VecAddContextsCall ==
    /\ v_out.op # "retrieve"
    /\ \E contexts \in UNION { [1..n -> {CalendarDict, EmailDict, NoteDict}]
                                  : n \in 0..MaxCorpus } :
           LET out == VecAddContexts(v_lib, vdb, contexts)
           IN  /\ vdb' = out.vdb
               /\ v_out' = VecOutcome("add_contexts", out.raised, "", 0, << >>, "", 0)
    /\ UNCHANGED << use_vector_db, v_lib, benchmark_results, kv_vars, p_vars >>

\* retrieve(query, top_k) on the vector manager, start to end, for queries
\* that the encoders map to different points
VecRetrieveCall ==
    /\ \E query \in {"3pm meeting", "user context and mood", "8am deadline"} :
       \E top_k \in TopKs :
           v_out' = VecRetrieve(v_lib, vdb, query, top_k)
    /\ UNCHANGED << use_vector_db, v_lib, vdb, benchmark_results, kv_vars, p_vars >>

ManagerNext ==
    \/ ~use_vector_db /\ KvNext
    \/ use_vector_db /\ VecAddContextsCall
    \/ use_vector_db /\ VecRetrieveCall

SpecManager == ManagerInit /\ [][ManagerNext]_vars

(***************************************************************************)
(* LLMOrchestrator.generate_nudge, one node of the graph at a time.        *)
(***************************************************************************)
Init ==
    /\ cm = NewManager
    /\ KvIdle
    /\ NoCalls
    /\ NoVector

\* generate_nudge(user_data) is entered by caller c
Call(c, user_datas) ==
    /\ p_pc[c] \in {"idle", "done"}
    /\ \E user_data \in user_datas :
           p_state' = [p_state EXCEPT ![c] = InitialState(user_data)]
    /\ p_pc' = [p_pc EXCEPT ![c] = EntryPoint]
    /\ p_result' = [p_result EXCEPT ![c] = NoReturn]
    /\ p_error' = [p_error EXCEPT ![c] = ""]
    /\ p_ran' = [p_ran EXCEPT ![c] = << >>]
    /\ p_llm' = [p_llm EXCEPT ![c] = << >>]
    /\ UNCHANGED << cm, kv_call, v_vars, p_replaced >>

\* the graph ran node for caller c, and the node did out
Ran(c, node, out) ==
    /\ p_state' = [p_state EXCEPT ![c] = out.state]
    /\ cm' = out.cm
    /\ p_ran' = [p_ran EXCEPT ![c] = Append(@, [node |-> node, raised |-> out.raised])]
    /\ p_error' = [p_error EXCEPT ![c] = out.error]
    /\ p_pc' = [p_pc EXCEPT ![c] =
                   IF out.raised THEN "except"
                   ELSE IF Edges[node] = "END" THEN "return" ELSE Edges[node]]
    /\ UNCHANGED << p_result, kv_call, v_vars >>

\* the record of a call of self.llm.invoke by node: whether it returned, and
\* the token usage its response reported
Invoked(node, response) ==
    [ node |-> node, ok |-> response.ok,
      input |-> IF response.ok /\ response.has_metadata THEN response.prompt_tokens ELSE 0,
      output |-> IF response.ok /\ response.has_metadata
                 THEN response.completion_tokens ELSE 0 ]

\* whether manager old holds a dict that manager new does not hold
Dropped(old, new) ==
    \E i \in 1..Len(old.all_contexts) :
        \A j \in 1..Len(new.all_contexts) : new.all_contexts[j].d # old.all_contexts[i].d

NodeIngest(c, cm_oks) ==
    /\ p_pc[c] = "ingest_data"
    /\ \E cm_ok \in cm_oks :
           LET out == IngestData(p_state[c], cm, cm_ok)
           IN  /\ Ran(c, "ingest_data", out)
               /\ p_replaced' = IF out.raised THEN p_replaced ELSE Dropped(cm, out.cm)
    /\ UNCHANGED p_llm

NodeRetrieve(c, cm_oks) ==
    /\ p_pc[c] = "retrieve_context"
    /\ \E cm_ok \in cm_oks :
           Ran(c, "retrieve_context", RetrieveContext(p_state[c], cm, cm_ok))
    /\ UNCHANGED << p_llm, p_replaced >>

NodeAnalyze(c, responses) ==
    /\ p_pc[c] = "analyze_context"
    /\ \E response \in responses :
           /\ Ran(c, "analyze_context", AnalyzeContext(p_state[c], cm, response))
           /\ p_llm' = [p_llm EXCEPT ![c] = Append(@, Invoked("analyze_context", response))]
    /\ UNCHANGED p_replaced

NodeGenerate(c, responses) ==
    /\ p_pc[c] = "generate_nudge"
    /\ \E response \in responses :
           LET out == GenerateNudgeNode(p_state[c], cm, response)
           IN  /\ Ran(c, "generate_nudge", out)
               /\ p_llm' = [p_llm EXCEPT ![c] =
                               IF out.raised THEN @
                               ELSE Append(@, Invoked("generate_nudge", response))]
    /\ UNCHANGED p_replaced

\* the graph returned final_state to generate_nudge
Return(c) ==
    /\ p_pc[c] = "return"
    /\ p_state' = [p_state EXCEPT ![c] = FinalState(@)]
    /\ p_result' = [p_result EXCEPT ![c] = [kind |-> "return", value |-> FinalState(p_state[c])]]
    /\ p_pc' = [p_pc EXCEPT ![c] = "done"]
    /\ UNCHANGED << cm, kv_call, v_vars, p_error, p_ran, p_llm, p_replaced >>

\* the graph raised, and generate_nudge is in its except clause
Except(c) ==
    /\ p_pc[c] = "except"
    /\ p_result' = [p_result EXCEPT ![c] = HandleException(p_error[c])]
    /\ p_pc' = [p_pc EXCEPT ![c] = "done"]
    /\ UNCHANGED << cm, kv_call, v_vars, p_state, p_error, p_ran, p_llm, p_replaced >>

\* a step of the call of caller c once it is entered
Progress(c) ==
    \/ NodeIngest(c, BOOLEAN)
    \/ NodeRetrieve(c, BOOLEAN)
    \/ NodeAnalyze(c, Responses)
    \/ NodeGenerate(c, Responses)
    \/ Return(c)
    \/ Except(c)

\* one caller, one call after the other
PipeNext ==
    \/ Call("A", UserDatas)
    \/ Progress("A")

SpecPipe == Init /\ [][PipeNext]_vars

\* every call that is entered runs on: the nodes and what they call return
FairPipe == SpecPipe /\ WF_vars(Progress("A"))

\* two callers of one orchestrator, whose calls interleave node by node
ConcUserDatas == { FullData, EmailData }

ConcNext ==
    \E c \in Callers :
        \/ Call(c, ConcUserDatas)
        \/ Progress(c)

SpecConc == Init /\ [][ConcNext]_vars

(***************************************************************************)
(* main, from the benchmark to the decision.                               *)
(***************************************************************************)
\* benchmark_context_managers returned its means
BenchmarkContextManagers ==
    /\ benchmark_results.pc = "benchmark"
    /\ \E vec_relevance \in 0..100, kv_relevance \in 0..100 :
       \E vec_latency \in {1, 40}, kv_latency \in {1, 40} :
           benchmark_results' =
               [ pc |-> "decide",
                 vector_db |-> [avg_latency_ms |-> vec_latency, avg_relevance |-> vec_relevance],
                 kv_cache |-> [avg_latency_ms |-> kv_latency, avg_relevance |-> kv_relevance] ]
    /\ UNCHANGED << use_vector_db, v_lib, vdb, v_out, kv_vars, p_vars >>

\* main assigns use_vector_db
MainDecision ==
    /\ benchmark_results.pc = "decide"
    /\ use_vector_db' = UseVectorDB(benchmark_results)
    /\ benchmark_results' = [benchmark_results EXCEPT !.pc = "decided"]
    /\ UNCHANGED << v_lib, vdb, v_out, kv_vars, p_vars >>

MainNext ==
    \/ BenchmarkContextManagers
    \/ MainDecision

SpecMain == Init /\ [][MainNext]_vars


(***************************************************************************)
(* Properties of KVCacheContextManager.retrieve, under SpecKV.             *)
(***************************************************************************)
StepPcs == {"category", "hour", "keyword", "recency"}
StepAfter == [category |-> "hour", hour |-> "keyword", keyword |-> "recency", recency |-> "return"]
StepRank == [category |-> 1, hour |-> 2, keyword |-> 3, recency |-> 4]

\* the steps that contributed the items of a list, without repetition
StepsOf(items) == {items[i].step : i \in 1..Len(items)}

OrderedBySteps(items) ==
    \A i \in 1..Len(items) : \A j \in 1..Len(items) :
        i < j => StepRank[items[i].step] <= StepRank[items[j].step]

\* the category of the corpus entry at position pos
TypeAt(pos) == Get(cm.all_contexts[pos].d, "type", "unknown")

CategoryMatched(i) == AnyIn(TypeKeywords[TypeOrder[i]], Lowered[kv_query])
CategoryPresent(i) == \E p \in 1..Len(cm.all_contexts) : TypeAt(p) = TypeOrder[i]
CategoryReturned(i) ==
    \E k \in 1..Len(kv_result.items) : TypeAt(kv_result.items[k].pos) = TypeOrder[i]

\* C1: for top_k >= 1 the steps of retrieve run in the order category, hour,
\* keyword, recency; a step only appends, to what the earlier steps collected,
\* items of its own; a step that starts with top_k items collected appends
\* nothing and no step collects more than top_k; the returned items are what
\* was collected, so every item of an earlier step precedes every item of a
\* later step in the returned text.
C1_CascadeOrder ==
    [][ /\ (kv_pc \in StepPcs /\ kv_top_k >= 1) =>
            /\ kv_pc' = StepAfter[kv_pc]
            /\ Len(kv_r'.retrieved) >= Len(kv_r.retrieved)
            /\ SubSeq(kv_r'.retrieved, 1, Len(kv_r.retrieved)) = kv_r.retrieved
            /\ \A i \in (Len(kv_r.retrieved) + 1)..Len(kv_r'.retrieved) :
                   kv_r'.retrieved[i].step = kv_pc
            /\ (Len(kv_r.retrieved) >= kv_top_k => kv_r' = kv_r)
            /\ Len(kv_r'.retrieved) <= kv_top_k
        /\ (kv_pc = "return" /\ kv_top_k >= 1) =>
            /\ kv_pc' = "done"
            /\ kv_result'.items = kv_r.retrieved
            /\ OrderedBySteps(kv_result'.items)
            /\ kv_result'.context =
                   Join("\n", [i \in 1..Len(kv_r.retrieved) |-> kv_r.retrieved[i].text])
      ]_kv_vars

\* C1 witness: a call with top_k >= 1 returned items of three different steps
C1_Witness ==
    /\ kv_pc = "done"
    /\ kv_top_k >= 1
    /\ Cardinality(StepsOf(kv_result.items)) >= 3

\* C2 as claimed: every category whose vocabulary occurs in the query and that
\* has an item in the corpus has an item in the result
C2_EveryMatchedCategory ==
    kv_pc = "done" =>
        \A i \in 1..Len(TypeOrder) :
            (CategoryMatched(i) /\ CategoryPresent(i)) => CategoryReturned(i)

\* C2 as amended: for top_k >= 1, a category whose vocabulary occurs in the
\* query and that has an item in the corpus has an item in the result unless
\* the result already holds top_k items, all of matched categories that come
\* before it in the order calendar, email, fitness, music
C2_MatchedCategoryUnlessFull ==
    (kv_pc = "done" /\ kv_top_k >= 1) =>
        \A i \in 1..Len(TypeOrder) :
            (CategoryMatched(i) /\ CategoryPresent(i)) =>
                \/ CategoryReturned(i)
                \/ /\ Len(kv_result.items) = kv_top_k
                   /\ \A k \in 1..Len(kv_result.items) :
                          \E j \in 1..(i - 1) :
                              /\ CategoryMatched(j)
                              /\ TypeAt(kv_result.items[k].pos) = TypeOrder[j]

\* C2 witness: a call with top_k >= 1 returned, with two matched categories in
\* the corpus, an item of the first and none of the second
C2_Witness ==
    /\ kv_pc = "done"
    /\ kv_top_k >= 1
    /\ \E i \in 1..Len(TypeOrder) : \E j \in 1..Len(TypeOrder) :
           /\ i < j
           /\ CategoryMatched(i) /\ CategoryPresent(i) /\ CategoryReturned(i)
           /\ CategoryMatched(j) /\ CategoryPresent(j) /\ ~CategoryReturned(j)

\* the buckets whose key the query selects and that hold the corpus entry pos
EligibleSteps(pos) ==
    {"category" : i \in {i \in 1..Len(TypeOrder) :
                            CategoryMatched(i) /\ TypeAt(pos) = TypeOrder[i]}}
      \cup {"hour" : i \in {i \in 1..3 :
                            LET h == PatternHours(Lowered[kv_query])[i]
                                key == "hour_" \o Format02d(h)
                            IN  /\ h >= 0
                                /\ key \in DOMAIN cm.cache
                                /\ \E k \in 1..Len(cm.cache[key]) : cm.cache[key][k].pos = pos}}
      \cup {"keyword" : i \in {i \in 1..Len(Keywords) :
                            LET key == "keyword_" \o Keywords[i]
                            IN  /\ In(Keywords[i], Lowered[kv_query])
                                /\ key \in DOMAIN cm.cache
                                /\ \E k \in 1..Len(cm.cache[key]) : cm.cache[key][k].pos = pos}}

\* C3: retrieve returns at most top_k items, and no corpus entry twice
C3_AtMostTopKDistinct ==
    kv_pc = "done" =>
        /\ Len(kv_result.items) <= kv_top_k
        /\ \A i \in 1..Len(kv_result.items) : \A j \in 1..Len(kv_result.items) :
               kv_result.items[i].pos = kv_result.items[j].pos => i = j

\* C3 witness: a returned item was eligible in the category, the hour and the
\* keyword bucket, and in the recency fallback that ran
C3_Witness ==
    /\ kv_pc = "done"
    /\ "recency" \in StepsOf(kv_result.items)
    /\ \E k \in 1..Len(kv_result.items) :
           EligibleSteps(kv_result.items[k].pos) = {"category", "hour", "keyword"}

\* C4 as claimed: the score is 0.0 when no item is returned, 0.7 when at least
\* one but fewer than top_k, 0.9 when top_k items are returned, for every
\* top_k >= 0
C4_ScoreByCount ==
    kv_pc = "done" =>
        LET n == Len(kv_result.items)
        IN  /\ (n = 0 => kv_result.relevance_score = 0)
            /\ (n >= 1 /\ n < kv_top_k => kv_result.relevance_score = 70)
            /\ (n >= 1 /\ n = kv_top_k => kv_result.relevance_score = 90)

(***************************************************************************)
(* Properties of LLMOrchestrator.generate_nudge.                           *)
(***************************************************************************)
StageOrder == << "ingest_data", "retrieve_context", "analyze_context", "generate_nudge" >>

LatencyKey ==
    [ ingest_data |-> "ingestion", retrieve_context |-> "retrieval",
      analyze_context |-> "analysis", generate_nudge |-> "nudge_generation" ]

Done(c) == p_pc[c] = "done"

NodesRan(c) == [i \in 1..Len(p_ran[c]) |-> p_ran[c][i].node]

\* the call of caller c went through the except clause
Fatal(c) == Len(p_ran[c]) > 0 /\ p_ran[c][Len(p_ran[c])].raised

LLMFailedIn(c, node) ==
    \E i \in 1..Len(p_llm[c]) : p_llm[c][i].node = node /\ ~p_llm[c][i].ok

LatencyKeys(d) == Get(d, "latency_breakdown", {})

\* C5: a call of generate_nudge never lets an exception out, and, whatever
\* the language model, the context manager and the user data do, every call
\* that is entered comes back with a record that holds a nudge.
C5_AlwaysReturnsNudge ==
    /\ [](\A c \in Callers : p_result[c].kind # "raise")
    /\ (p_pc["A"] = EntryPoint)
           ~> (Done("A") /\ p_result["A"].kind = "return"
                         /\ "nudge" \in DOMAIN p_result["A"].value)

\* a call came back through the except clause, with the nudge of that clause
C5_Witness ==
    /\ Done("A") /\ Fatal("A")
    /\ p_result["A"].kind = "return"
    /\ Get(p_result["A"].value, "nudge", "") = "Error generating nudge."

\* C6: when the language model fails in the analysis, the result holds the
\* fallback analysis, a non-empty error, the latency keys of all four
\* stages, and the generation stage has run.
C6_AnalysisFailureNotFatal ==
    \A c \in Callers :
        (Done(c) /\ LLMFailedIn(c, "analyze_context")) =>
            /\ Get(p_result[c].value, "analysis", "") = "Unable to analyze context."
            /\ Get(p_result[c].value, "error", "") # ""
            /\ {LatencyKey[n] : n \in Nodes} \subseteq LatencyKeys(p_result[c].value)
            /\ \E i \in 1..Len(p_ran[c]) :
                   p_ran[c][i].node = "generate_nudge" /\ ~p_ran[c][i].raised

\* the latency keys of the stages that ran before position i of the order
KeysBefore(i) == {LatencyKey[StageOrder[j]] : j \in 1..(i - 1)}

\* a stage that starts finds the latency keys of the stages before it
LatencyWrittenBeforeNext(c) ==
    /\ p_pc[c] \in Nodes =>
           /\ Len(p_ran[c]) < Len(StageOrder)
           /\ p_pc[c] = StageOrder[Len(p_ran[c]) + 1]
           /\ KeysBefore(Len(p_ran[c]) + 1) \subseteq LatencyKeys(p_state[c])
    /\ p_pc[c] = "return" =>
           /\ Len(p_ran[c]) = Len(StageOrder)
           /\ KeysBefore(Len(StageOrder) + 1) \subseteq LatencyKeys(p_state[c])

C8_OnlyIngestShortCircuits ==
    \A c \in Callers :
        (Done(c) /\ Fatal(c)) => p_ran[c] = << [node |-> "ingest_data", raised |-> TRUE] >>

OwnContext ==
    [ user_data \in UserDatas |->
        Retrieve(AddContextsResult(IngestContexts(user_data)), BuildQuery(user_data), 3).context
    ] @@ << >>

RECURSIVE SumTokens(_, _, _)
SumTokens(calls, field, i) ==
    IF i > Len(calls) THEN 0 ELSE calls[i][field] + SumTokens(calls, field, i + 1)

\* C10: of two calls of one orchestrator that run at the same time, each
\* builds its context from its own user data only, and its token counters
\* and latency keys are those of its own stages.
C10_CallsIsolated ==
    \A c \in Callers :
        /\ "context" \in DOMAIN p_state[c] =>
               p_state[c]["context"] = OwnContext[p_state[c]["user_data"]]
        /\ "cost_tokens" \in DOMAIN p_state[c] =>
               /\ p_state[c]["cost_tokens"].input = SumTokens(p_llm[c], "input", 1)
               /\ p_state[c]["cost_tokens"].output = SumTokens(p_llm[c], "output", 1)
        /\ LatencyKeys(p_state[c]) \ {"total"}
               = {LatencyKey[p_ran[c][i].node] : i \in {j \in 1..Len(p_ran[c]) : ~p_ran[c][j].raised}}

\* how often the language model was called by node in the call of caller c
Invocations(c, node) == Cardinality({i \in 1..Len(p_llm[c]) : p_llm[c][i].node = node})

\* C11: the language model is called at most once by a stage, so a failed
\* call is never tried again, and a call of generate_nudge that reached the
\* analyze stage has called it exactly once in analyze and exactly once in
\* generate when it returns.
C11_InvokedOncePerStage ==
    \A c \in Callers :
        /\ \A node \in Nodes : Invocations(c, node) <= 1
        /\ Len(p_llm[c]) <= 2
        /\ (Done(c) /\ \E i \in 1..Len(p_ran[c]) : p_ran[c][i].node = "analyze_context") =>
               /\ Invocations(c, "analyze_context") = 1
               /\ Invocations(c, "generate_nudge") = 1

\* the latency keys of the stages of the call of caller c that completed
KeysOfCompleted(c) ==
    {LatencyKey[p_ran[c][i].node] : i \in {j \in 1..Len(p_ran[c]) : ~p_ran[c][j].raised}}

\* C12: while a call runs, its latency map holds the key of every stage
\* that completed and its token counters are the sums of the usage reported
\* so far (so keys are only added and counters never decrease), and the
\* record the caller receives holds the key of every stage that completed.
C12_LatencyKeysKept ==
    \A c \in Callers :
        /\ KeysOfCompleted(c) \subseteq LatencyKeys(p_state[c])
        /\ "cost_tokens" \in DOMAIN p_state[c] =>
               /\ p_state[c]["cost_tokens"].input = SumTokens(p_llm[c], "input", 1)
               /\ p_state[c]["cost_tokens"].output = SumTokens(p_llm[c], "output", 1)
        /\ Done(c) => KeysOfCompleted(c) \subseteq LatencyKeys(p_result[c].value)

\* the step of caller c in which the language model failed in the
\* generation stage
GenerationFailed(c) ==
    /\ p_pc[c] = "generate_nudge"
    /\ Len(p_llm'[c]) = Len(p_llm[c]) + 1
    /\ ~p_llm'[c][Len(p_llm'[c])].ok

\* C20: when the language model fails in the generation stage, the stage
\* leaves the analysis and the token counters as they were, and the result
\* holds the fallback nudge, a non-empty error, the latency key
\* nudge_generation, and the analysis and the counters of the analysis stage.
C20_GenerationFailureFallback ==
    /\ [][\A c \in Callers :
              GenerationFailed(c) =>
                  /\ "analysis" \in DOMAIN p_state[c]
                  /\ p_state'[c]["analysis"] = p_state[c]["analysis"]
                  /\ p_state'[c]["cost_tokens"] = p_state[c]["cost_tokens"]
                  /\ p_state'[c]["context"] = p_state[c]["context"]]_vars
    /\ [](\A c \in Callers :
              (Done(c) /\ LLMFailedIn(c, "generate_nudge")) =>
                  /\ p_result[c].kind = "return"
                  /\ Get(p_result[c].value, "nudge", "")
                         = "I'm here to help! How can I assist you today?"
                  /\ Get(p_result[c].value, "error", "") # ""
                  /\ "nudge_generation" \in LatencyKeys(p_result[c].value)
                  /\ Get(p_result[c].value, "analysis", "") = p_state[c]["analysis"]
                  /\ p_result[c].value["cost_tokens"].input = p_llm[c][1].input
                  /\ p_result[c].value["cost_tokens"].output = p_llm[c][1].output)

\* a call returned after the analysis succeeded, with usage reported, and
\* the generation failed
C20_Witness ==
    /\ Done("A") /\ LLMFailedIn("A", "generate_nudge")
    /\ ~LLMFailedIn("A", "analyze_context")
    /\ p_result["A"].value["cost_tokens"].input > 0
    /\ Get(p_result["A"].value, "analysis", "") = "Take a short walk."

\* caller c is in a call whose ingest stage completed
IngestCompleted(c) == Len(p_ran[c]) >= 1 /\ ~p_ran[c][1].raised

\* C13: add_contexts replaces the index: once the ingest stage of a call has
\* given its contexts B to the context manager, retrieve gives for every
\* query and top_k what a new manager that was given B gives, every item it
\* returns is an entry of B, and the context the call retrieves is the one
\* of its own user data, whatever the manager held before.
C13_AddContextsReplaces ==
    \A c \in {"A"} :
        IngestCompleted(c) =>
            LET B == IngestContexts(p_state[c]["user_data"])
                fresh == AddContextsResult(B)
            IN  /\ \A query \in Queries : \A top_k \in TopKs :
                       LET result == Retrieve(cm, query, top_k)
                       IN  /\ result = Retrieve(fresh, query, top_k)
                           /\ \A i \in 1..Len(result.items) :
                                  /\ result.items[i].pos \in 1..Len(B)
                                  /\ result.items[i].text
                                         = FormatContext(B[result.items[i].pos].d)
                /\ "context" \in DOMAIN p_state[c] =>
                       p_state[c]["context"] = OwnContext[p_state[c]["user_data"]]

\* a call has retrieved its context from a manager whose index held, before
\* the ingest stage of the call, a dict that the call's user data lacks
C13_Witness ==
    /\ p_replaced
    /\ IngestCompleted("A")
    /\ "context" \in DOMAIN p_state["A"]
    /\ Len(cm.all_contexts) > 0

\* C14: the manager owns its item list: its list stays the list add_contexts
\* indexed, whatever the caller does to the list it passed, so every result
\* of retrieve is the one of the buckets and the indexed list.
C14_ManagerOwnsItems ==
    /\ cm.all_contexts = IndexedList(cm.cache)
    /\ kv_pc = "done" =>
           kv_result = Retrieve([all_contexts |-> IndexedList(cm.cache), cache |-> cm.cache],
                                kv_query, kv_top_k)

\* the hour bucket the time expression of kind with the number h stands for
ExpectedHour(h, kind) ==
    IF kind = "pm" THEN (IF h = 12 THEN 12 ELSE h + 12)
    ELSE IF kind = "am" THEN (IF h = 12 THEN 0 ELSE h)
    ELSE h

\* the items that the hour step of the finished call contributed
HourItems == {kv_result.items[i].pos : i \in {j \in 1..Len(kv_result.items) :
                                                  kv_result.items[j].step = "hour"}}

\* the items of the corpus whose timestamp has the hour
ItemsAtHour(hour) ==
    {i \in 1..Len(cm.all_contexts) :
         cm.all_contexts[i].d["time"] = "2024-01-15 " \o Format02d(hour) \o ":00:00"}

\* C16: for a query with the time expression <h>pm, <h>am or <hh>:<mm> and
\* top_k >= 1, the hour step contributes exactly the items of the bucket of
\* h + 12 (12 for 12pm), of h (0 for 12am), and of hh; "3pm meeting" reads
\* bucket 15, "11am call" bucket 11, "12pm lunch" bucket 12, "12am" bucket 0.
C16_HourBucket ==
    (kv_pc = "done" /\ kv_top_k >= 1) =>
        /\ \A h \in 0..MaxHour : \A form \in HourForms :
               kv_query = HourQuery(h, form) =>
                   HourItems = ItemsAtHour(ExpectedHour(h, form.kind))
        /\ kv_query = "3pm meeting" => HourItems = ItemsAtHour(15)
        /\ kv_query = "11am call" => HourItems = ItemsAtHour(11)
        /\ kv_query = "12pm lunch" => HourItems = ItemsAtHour(12)
        /\ kv_query = "12am" => HourItems = ItemsAtHour(0)

\* "12pm lunch" was asked of a corpus with an item at 12 and the hour step
\* returned that item
C16_Witness ==
    /\ kv_pc = "done"
    /\ kv_query = "12pm lunch"
    /\ HourItems # {}
    /\ HourItems = ItemsAtHour(12)

\* C15: retrieve on a manager with an empty corpus, before any add_contexts
\* and after add_contexts([]), does not raise and returns empty text and
\* relevance 0, on the Multi-Key manager and on the vector manager.
C15_EmptyCorpusResult ==
    /\ (kv_pc = "done" /\ Len(cm.all_contexts) = 0) =>
           kv_result.context = "" /\ kv_result.relevance_score = 0
    /\ (v_out.op = "retrieve" /\ Len(vdb.contexts) = 0) =>
           ~v_out.raised /\ v_out.context = "" /\ v_out.relevance_score = 0

\* the list that add_contexts was called with to give the manager its items
ItemList(m) == [i \in 1..Len(m.all_contexts) |->
                    [oid |-> m.all_contexts[i].oid, d |-> m.all_contexts[i].d]]

\* whether two retrieve results have the same text and relevance score
SameResult(a, b) == a.context = b.context /\ a.relevance_score = b.relevance_score

\* C18: after add_contexts, a retrieve gives the text and the relevance score
\* that it gives once add_contexts is called again with the same item list,
\* on either manager; and no step of retrieve changes the manager.
C18_Deterministic ==
    /\ [](/\ kv_pc = "done" =>
                 SameResult(kv_result,
                            Retrieve(Indexed[ItemList(cm)], kv_query, kv_top_k))
          /\ (v_out.op = "retrieve" /\ vdb.index.built) =>
                 LET again == VecRetrieve(v_lib, VecAddContexts(v_lib, vdb, vdb.metadata).vdb,
                                          v_out.query, v_out.top_k)
                 IN  SameResult(v_out, again) /\ v_out.raised = again.raised)
    /\ [][(kv_pc' # "idle" \/ v_out'.op = "retrieve") => (cm' = cm /\ vdb' = vdb)]_vars

\* a retrieve on the vector manager returned two texts of a corpus it had
\* been given
C18_Witness ==
    /\ v_out.op = "retrieve"
    /\ ~v_out.raised
    /\ Len(v_out.items) = 2
    /\ Len(vdb.metadata) = 3

\* C19: retrieve(query, top_k) on the vector manager with top_k >= 1 returns
\* exactly min(top_k, corpus size) texts, corpus-size ones when top_k is
\* larger, and reads only positions of the stored item list.
C19_ExactlyMinTopK ==
    (v_out.op = "retrieve" /\ v_out.top_k >= 1) =>
        /\ ~v_out.raised
        /\ Len(v_out.items) = (IF v_out.top_k < Len(vdb.contexts) THEN v_out.top_k
                               ELSE Len(vdb.contexts))
        /\ \A i \in 1..Len(v_out.items) : v_out.items[i] \in 1..Len(vdb.contexts)
        /\ v_out.context = Join("\n", [i \in 1..Len(v_out.items) |-> vdb.contexts[v_out.items[i]]])

\* C17: the decision is for the vector manager exactly when its mean
\* relevance is strictly greater than 1.1 times the mean relevance of the
\* Multi-Key manager, whatever the latencies: (0.9, 0.7) gives the vector
\* manager, (0.75, 0.7) and the boundary (0.77, 0.7) the Multi-Key manager.
C17_DecisionRule ==
    benchmark_results.pc = "decided" =>
        LET vec == benchmark_results.vector_db.avg_relevance
            kv  == benchmark_results.kv_cache.avg_relevance
        IN  /\ use_vector_db <=> (100 * vec > 110 * kv)
            /\ (vec = 90 /\ kv = 70) => use_vector_db
            /\ (vec = 75 /\ kv = 70) => ~use_vector_db
            /\ (vec = 77 /\ kv = 70) => ~use_vector_db

\* at the boundary (0.77, 0.7) the decision was for the Multi-Key manager
\* although the vector manager was the faster one
C17_Witness ==
    /\ benchmark_results.pc = "decided"
    /\ benchmark_results.vector_db.avg_relevance = 77
    /\ benchmark_results.kv_cache.avg_relevance = 70
    /\ benchmark_results.vector_db.avg_latency_ms < benchmark_results.kv_cache.avg_latency_ms
    /\ ~use_vector_db

\* C21: for the user data with one email ("Urgent update", stressed about the
\* deadline) and one fitness entry (workout), the retrieve stage asks for
\* "Recent email: Urgent update Current activity: workout", and retrieve
\* with top_k = 3 returns the email and the fitness item, both from the
\* category step, and nothing from the recency fallback.
C21_ScenarioRetrieval ==
    \A c \in {"A"} :
        ("context" \in DOMAIN p_state[c] /\ p_state[c]["user_data"] = ScenarioData) =>
            LET query == "Recent email: Urgent update Current activity: workout"
                result == Retrieve(cm, query, 3)
            IN  /\ BuildQuery(p_state[c]["user_data"]) = query
                /\ p_state[c]["context"] = result.context
                /\ Len(result.items) = 2
                /\ \A i \in 1..2 : result.items[i].step = "category"
                /\ cm.all_contexts[result.items[1].pos].d = Put(Email, "type", "email")
                /\ cm.all_contexts[result.items[2].pos].d = Put(FitnessMetric, "type", "fitness")

\* the call with the scenario's user data has returned its result, with the
\* texts of the email and of the fitness entry as its context
C21_Witness ==
    /\ p_pc["A"] = "done"
    /\ p_result["A"].kind = "return"
    /\ "context" \in DOMAIN p_result["A"].value
    /\ p_result["A"].value["user_data"] = ScenarioData
    /\ p_result["A"].value["context"] =
           "Email from colleague@company.com: Urgent update. "
               \o "I'm feeling stressed about the deadline. Can we discuss?"
               \o "\n" \o "Fitness: workout at 2024-01-15 15:30:00. Steps: 500, HR: 70"

\* the positions of the corpus that the finished call returned
ReturnedPositions == {kv_result.items[j].pos : j \in 1..Len(kv_result.items)}

\* the items the finished call returned before its fallback, and the
\* positions its fallback added, in the order in which it added them
BeforeFallback == SelectSeq(kv_result.items, LAMBDA item : item.step # "recency")

Padded ==
    LET items == SelectSeq(kv_result.items, LAMBDA item : item.step = "recency")
    IN  [j \in 1..Len(items) |-> items[j].pos]

\* C22: when the category, hour and keyword steps collected fewer than top_k
\* items, the fallback adds the newest positions of the corpus that were not
\* collected, newest first, until top_k items are collected or no
\* uncollected position remains; otherwise it adds nothing.
C22_RecencyPadsNewestUncollected ==
    kv_pc = "done" =>
        LET uncollected == {i \in 1..Len(cm.all_contexts) :
                                \A j \in 1..Len(BeforeFallback) : BeforeFallback[j].pos # i}
            need == kv_top_k - Len(BeforeFallback)
            count == IF need <= 0 THEN 0
                     ELSE IF need < Cardinality(uncollected) THEN need
                     ELSE Cardinality(uncollected)
        IN  /\ Len(Padded) = count
            /\ \A j \in 1..Len(Padded) :
                   /\ Padded[j] \in uncollected
                   /\ Cardinality({i \in uncollected : i > Padded[j]}) = j - 1

\* C24: retrieve tells the entries of the corpus apart by their position: when
\* it returns fewer than top_k items it has returned every position of the
\* corpus, also when two positions hold the same object or equal dicts.
C24_PositionsAreItems ==
    (kv_pc = "done" /\ Len(kv_result.items) < kv_top_k) =>
        ReturnedPositions = 1..Len(cm.all_contexts)

\* whether no object is listed twice in the corpus
DistinctObjects ==
    \A i \in 1..Len(cm.all_contexts) : \A j \in 1..Len(cm.all_contexts) :
        cm.all_contexts[i].oid = cm.all_contexts[j].oid => i = j

InBucket(i, key) ==
    key \in DOMAIN cm.cache /\ \E j \in 1..Len(cm.cache[key]) : cm.cache[key][j].pos = i

\* the hour of day of the timestamps that have one
StampHours == ("2024-01-15 08:00:00" :> 8) @@ ("2024-01-15 15:00:00" :> 15)

\* C25: after add_contexts an item is in the hour bucket that a query for
\* hour h reads exactly when its timestamp has the hour of day h; an item
\* without a timestamp, or with one that has no space between date and time,
\* is in no hour bucket.
C25_HourBucketIffTimestampHour ==
    \A i \in 1..Len(cm.all_contexts) : \A h \in 0..23 :
        LET d == cm.all_contexts[i].d
        IN  InBucket(i, "hour_" \o Format02d(h))
                <=> /\ "time" \in DOMAIN d
                    /\ d["time"] \in DOMAIN StampHours
                    /\ StampHours[d["time"]] = h

\* C26: after add_contexts an item is in the bucket of a keyword of the
\* vocabulary exactly when the keyword is a substring of the lowercased text
\* that _format_context renders for it.
C26_KeywordBucketIffInRenderedText ==
    \A i \in 1..Len(cm.all_contexts) : \A k \in 1..Len(Keywords) :
        InBucket(i, "keyword_" \o Keywords[k])
            <=> In(Keywords[k], Lower(FormatContext(cm.all_contexts[i].d)))

\* the entries of a list of the user data, none when the list is missing
ListOf(user_data, key) == IF key \in DOMAIN user_data THEN user_data[key].items ELSE << >>

\* the query the retrieve stage is to build from user_data
ExpectedQuery(user_data) ==
    LET emails == ListOf(user_data, "emails")
        fitness == ListOf(user_data, "fitness")
        subject == Get(emails[Len(emails)], "subject", "")
        activity == Get(fitness[Len(fitness)], "activity_type", "")
    IN  IF Len(emails) > 0 /\ Len(fitness) > 0
        THEN "Recent email: " \o subject \o " Current activity: " \o activity
        ELSE IF Len(emails) > 0 THEN "Recent email: " \o subject
        ELSE IF Len(fitness) > 0 THEN "Current activity: " \o activity
        ELSE "user context and mood"

\* the retrieve stage of the call of caller c ran with a context manager
\* that answers
RetrieveStageRan(c) ==
    /\ Len(p_ran[c]) >= 2
    /\ p_ran[c][2].node = "retrieve_context"
    /\ p_error[c] # "retrieve failed"

\* C23: whenever the retrieve stage has run with a context manager that
\* answers, the call holds the context that retrieve gives, with top_k = 3,
\* for the query made of the subject of the last email and the activity type
\* of the last fitness entry, of the one part that exists when the other
\* list is empty, and of "user context and mood" when both lists are empty
\* or missing.
C23_QueryFromLastEmailAndActivity ==
    \A c \in {"A"} :
        RetrieveStageRan(c) =>
            /\ "context" \in DOMAIN p_state[c]
            /\ p_state[c]["context"]
                   = Retrieve(cm, ExpectedQuery(p_state[c]["user_data"]), 3).context

\* the entries of the list key of user_data, each tagged with type
Tagged(user_data, key, type) ==
    LET entries == ListOf(user_data, key)
    IN  [j \in 1..Len(entries) |->
            [k \in DOMAIN entries[j] \cup {"type"} |->
                IF k = "type" THEN type ELSE entries[j][k]]]

\* C27: once the ingest stage of a call has completed, the context manager
\* holds exactly one item per entry of the calendar, emails, fitness and
\* music lists of the call's user data, in that order and in list order
\* within a category, each with the type of its category in place of any
\* type of its own; a missing list gives no item, and the user data of the
\* call are still as they were passed in.
C27_IngestFlattensInOrder ==
    \A c \in {"A"} :
        IngestCompleted(c) =>
            LET user_data == p_state[c]["user_data"]
            IN  /\ [i \in 1..Len(cm.all_contexts) |-> cm.all_contexts[i].d]
                       = Tagged(user_data, "calendar", "calendar")
                             \o Tagged(user_data, "emails", "email")
                             \o Tagged(user_data, "fitness", "fitness")
                             \o Tagged(user_data, "music", "music")
                /\ user_data \in UserDatas

\* ingest completed for two calendar events and an email, with no fitness
\* and no music list: the event that came as a reminder is the first item,
\* as a calendar item, and the user data still call it a reminder
C27_Witness ==
    /\ IngestCompleted("A")
    /\ p_state["A"]["user_data"] = TypedData
    /\ Len(cm.all_contexts) = 3
    /\ cm.all_contexts[1].d["title"] = "Dentist"
    /\ cm.all_contexts[1].d["type"] = "calendar"
    /\ cm.all_contexts[3].d["type"] = "email"
    /\ p_state["A"]["user_data"]["calendar"].items[1]["type"] = "reminder"

\* C29: the record a call returns when no stage raised holds error if and
\* only if the language model failed in the analyze or in the generate stage,
\* and error names the last stage in which it failed: the generation error
\* when generation failed, also when the analysis had failed before, and the
\* analysis error when the analysis alone failed.
C29_ErrorNamesLastFailedStage ==
    \A c \in {"A"} :
        Done(c) /\ ~Fatal(c) =>
            LET result == p_result[c].value
                analysis_failed == LLMFailedIn(c, "analyze_context")
                generation_failed == LLMFailedIn(c, "generate_nudge")
            IN  /\ "error" \in DOMAIN result <=> analysis_failed \/ generation_failed
                /\ generation_failed =>
                       result["error"] = "Nudge generation error: " \o LLMFailure.error
                /\ analysis_failed /\ ~generation_failed =>
                       result["error"] = "Analysis error: " \o LLMFailure.error

\* a call in which the language model failed in both stages has returned the
\* record of the last stage, with the generation error
C29_Witness ==
    /\ Done("A") /\ ~Fatal("A")
    /\ LLMFailedIn("A", "analyze_context") /\ LLMFailedIn("A", "generate_nudge")
    /\ p_result["A"].value["error"] = "Nudge generation error: Connection error."
    /\ p_result["A"].value["analysis"] = "Unable to analyze context."

\* C30: the token counters of the record a call returns when no stage raised
\* are the sums of the prompt and of the completion tokens that the calls of
\* the language model made by this call reported: a call that failed counts
\* nothing, and nothing counted by an earlier call of generate_nudge is in
\* them.
C30_TokensOfOwnSucceededCalls ==
    \A c \in {"A"} :
        Done(c) /\ ~Fatal(c) =>
            LET cost == p_result[c].value["cost_tokens"]
                succeeded == SelectSeq(p_llm[c], LAMBDA call : call.ok)
            IN  /\ cost.input = SumTokens(succeeded, "input", 1)
                /\ cost.output = SumTokens(succeeded, "output", 1)
                /\ cost.input <= 2 * MaxTokens /\ cost.output <= 2 * MaxTokens

\* a call in which the analysis failed and the generation reported one
\* prompt and one completion token has returned with the counters 1 and 1
C30_Witness ==
    /\ Done("A") /\ ~Fatal("A")
    /\ LLMFailedIn("A", "analyze_context")
    /\ Len(p_llm["A"]) = 2 /\ p_llm["A"][2].ok
    /\ p_llm["A"][2].input = 1 /\ p_llm["A"][2].output = 1
    /\ p_result["A"].value["cost_tokens"] = [input |-> 1, output |-> 1]

=============================================================================
